---- MODULE Spec2Model ----
(***************************************************************************)
(* Model of app.py: the /ws/agent and /ws/supervisor websocket handlers    *)
(* and the process-wide list `supervisors` they share.  Every handler is   *)
(* an asyncio task: the code between two awaits runs atomically, and every *)
(* await (accept, receive_text, send_text) is a point where the other      *)
(* tasks may run.  Scores are hundredths (0.6 is 60, 0.85 is 85).          *)
(***************************************************************************)
EXTENDS Integers, Sequences, FiniteSets, TLC

\* ------------------------------------------------------------- bounds
NumAgents == 2        \* agent connections (ws_agent tasks)
NumSups == 2          \* supervisor connections (ws_supervisor tasks)
MaxMsgs == 2          \* messages with text all agents send together
MaxTime == 1          \* last value of the millisecond clock
MaxInbound == 1       \* inbound messages all supervisors send together

Agents == 1..NumAgents
Sups == 1..NumSups
None == 0             \* no supervisor (not in Sups)

\* ------------------------------------------------------------- constants
AgentIdMod == 100000                       \* app.py:38  % 100000
AlertThreshold == 60                       \* app.py:61  score > 0.6
AlertLabels == {"anger", "fear", "sadness"} \* app.py:61
SP == " "

\* what an agent may send: plain text, possibly empty or blank
Inputs == { <<>>, <<SP>>, <<SP, "h", SP>>, <<"h", SP, "i">> }
CoreInputs == { <<SP>>, <<SP, "h", SP>> }

\* what emotion_pipe(text, ...) may do: raise, or return a value
ClassifierOutcomes ==
    { [kind |-> "raise", items |-> <<>>],
      [kind |-> "notlist", items |-> <<>>],
      [kind |-> "list", items |-> <<>>],
      [kind |-> "list", items |-> << [label |-> "anger", score |-> 85] >>],
      [kind |-> "list", items |-> << [label |-> "anger", score |-> 60] >>],
      [kind |-> "list", items |-> << [label |-> "fear", score |-> 61] >>],
      [kind |-> "list", items |-> << [label |-> "sadness", score |-> 100] >>],
      [kind |-> "list", items |-> << [label |-> "joy", score |-> 99] >>] }
CoreOutcomes ==
    { [kind |-> "raise", items |-> <<>>],
      [kind |-> "list", items |-> << [label |-> "anger", score |-> 85] >>] }

VARIABLES
    supervisors,   \* the module-level list (app.py:18)
    supState,      \* supervisor handler: "Init", "Registered", "Closed"
    supRaised,     \* exception that left ws_supervisor ("none" if it returned)
    connOpen,      \* the supervisor's connection can still take a send
    slow,          \* the supervisor whose sends never complete, or None
    supInbound,    \* inbound messages each supervisor handler has read
    inbox,         \* what each supervisor connection was sent, in order
    pc,            \* agent handler: "Init", "Streaming", "Broadcast", "Closed"
    raised,        \* exception that left ws_agent ("none" if it returned)
    loc,           \* locals agent_id, data, text, label, score, and res: what
                   \* the last call of emotion_pipe did
    loop,          \* the running broadcast: plan (passes of this message not yet
                   \* finished), msg (the dict being sent), sup (the member whose
                   \* send is awaited), idx (the list iterator), dead, snap
                   \* (the list as it was when the pass began), and took
                   \* (the members the alert loop of the message has taken)
    bcasts,        \* the dicts built for the agent's last message, in order
    ncalls,        \* calls of emotion_pipe the agent handler has made
    now            \* time.time() in milliseconds

agentVars == <<pc, raised, loc, loop, bcasts, ncalls>>
supVars == <<supState, supRaised, connOpen, slow, supInbound>>
vars == <<supervisors, supVars, inbox, agentVars, now>>

\* ------------------------------------------------------------- helpers
Range(s) == { s[i] : i \in 1..Len(s) }

IsSpace(c) == c = SP

RECURSIVE LStrip(_)
LStrip(s) == IF s # <<>> /\ IsSpace(Head(s)) THEN LStrip(Tail(s)) ELSE s

RECURSIVE RStrip(_)
RStrip(s) ==
    IF s # <<>> /\ IsSpace(s[Len(s)]) THEN RStrip(SubSeq(s, 1, Len(s) - 1)) ELSE s

\* strip() left out
Strip_Not(s) == s

\* app.py:42  data.strip()
Strip(s) == RStrip(LStrip(s))

\* the except branch giving the label of the else branch
Classify_RaiseAsNeutral(res) ==
    IF res.kind = "list" /\ Len(res.items) > 0
    THEN [label |-> res.items[1].label, score |-> res.items[1].score]
    ELSE [label |-> "neutral", score |-> 0]

\* app.py:47-58  the try/except around emotion_pipe
Classify(res) ==
    IF res.kind = "raise" THEN [label |-> "unknown", score |-> 0]
    ELSE IF res.kind = "list" /\ Len(res.items) > 0
         THEN [label |-> res.items[1].label, score |-> res.items[1].score]
         ELSE [label |-> "neutral", score |-> 0]

\* the threshold taken as inclusive
ShouldAlert_AtLeast(lb, sc) == lb \in AlertLabels /\ sc >= AlertThreshold

\* app.py:61  the alert condition
ShouldAlert(lb, sc) == lb \in AlertLabels /\ sc > AlertThreshold

\* the transcript broadcast placed before the alert
PassPlan_TranscriptFirst(lb, sc) ==
    IF ShouldAlert(lb, sc) THEN <<"transcript", "alert">> ELSE <<"transcript">>

\* app.py:61-89  the passes one message goes through, in order
PassPlan(lb, sc) ==
    IF ShouldAlert(lb, sc) THEN <<"alert", "transcript">> ELSE <<"transcript">>

\* app.py:20-28  (float(score) of the classifier's float is that float)
make_alert(agent_id, txt, lb, sc) ==
    [type |-> "alert", agentId |-> agent_id, text |-> txt, emotion |-> lb,
     score |-> sc, ts |-> now]

\* app.py:74-81
transcript_msg(agent_id, txt, lb, sc) ==
    [type |-> "transcript", agentId |-> agent_id, text |-> txt, emotion |-> lb,
     score |-> sc, ts |-> now]

BuildMsg(type, agent_id, txt, lb, sc) ==
    IF type = "alert" THEN make_alert(agent_id, txt, lb, sc)
    ELSE transcript_msg(agent_id, txt, lb, sc)

\* the timestamp taken again at each send
Dumps_Restamped(m) ==
    << <<"type", m.type>>, <<"agentId", m.agentId>>, <<"text", m.text>>,
       <<"emotion", m.emotion>>, <<"score", m.score>>, <<"ts", now>> >>

\* app.py:67, 85  json.dumps(dict): the members in insertion order
Dumps(m) ==
    << <<"type", m.type>>, <<"agentId", m.agentId>>, <<"text", m.text>>,
       <<"emotion", m.emotion>>, <<"score", m.score>>, <<"ts", m.ts>> >>

\* list.remove(x): drops the first occurrence (x is known to be in the list)
RemoveFirst(list, x) ==
    LET i == CHOOSE k \in 1..Len(list) :
                 list[k] = x /\ \A j \in 1..(k - 1) : list[j] # x
    IN SubSeq(list, 1, i - 1) \o SubSeq(list, i + 1, Len(list))

\* app.py:70-71 and 88-89  for d in dead: supervisors.remove(d)
\* list.remove raises ValueError when d is not in the list; the loop stops there
RECURSIVE RemoveDead(_, _)
RemoveDead(list, ds) ==
    IF ds = <<>> THEN [list |-> list, ok |-> TRUE]
    ELSE IF Head(ds) \in Range(list)
         THEN RemoveDead(RemoveFirst(list, Head(ds)), Tail(ds))
         ELSE [list |-> list, ok |-> FALSE]

NoData == <<"NUL">>     \* a local that is not bound
NoRes == [kind |-> "none", items |-> <<>>]
NoMsg == [type |-> "none"]

NoLocals ==
    [agent_id |-> 0, data |-> NoData, text |-> NoData, label |-> "none",
     score |-> 0, res |-> NoRes]

\* no broadcast running.  The locals sup, dead and the dicts are not read again
\* once the last pass of a message has ended: each pass assigns them anew.
NoLoop ==
    [plan |-> <<>>, msg |-> NoMsg, sup |-> None, idx |-> 0, dead |-> <<>>,
     snap |-> <<>>, took |-> {}]

RECURSIVE Sum(_, _)
Sum(f, n) == IF n = 0 THEN 0 ELSE f[n] + Sum(f, n - 1)

\* One run of an agent task from the list iterator's next() to its next await,
\* with the locals c, the list as it is now, the loop state st and the dicts bc
\* built so far: the for loop takes the next member and awaits its send
\* (app.py:65-67, 83-85), or ends; after the loop the dead are removed
\* (app.py:70-71, 88-89) and the next pass, if any, is built and begun
\* (app.py:74-83); after the last pass the task is back at receive_text.
RECURSIVE Iterate(_, _, _, _)
Iterate(c, list, st, bc) ==
    IF st.idx < Len(list)
    THEN [pc |-> "Broadcast", raised |-> "none", list |-> list, bcasts |-> bc,
          loop |-> [st EXCEPT !.idx = st.idx + 1, !.sup = list[st.idx + 1],
                              !.took = IF st.plan[1] = "alert"
                                       THEN @ \cup {list[st.idx + 1]} ELSE @]]
    ELSE LET r == RemoveDead(list, st.dead) IN
         IF ~r.ok
         THEN [pc |-> "Closed", raised |-> "ValueError", list |-> r.list,
               bcasts |-> bc, loop |-> NoLoop]
         ELSE IF Len(st.plan) > 1
         THEN LET m == BuildMsg(st.plan[2], c.agent_id, c.text, c.label, c.score)
              IN Iterate(c, r.list,
                         [plan |-> Tail(st.plan), msg |-> m, sup |-> None,
                          idx |-> 0, dead |-> <<>>, snap |-> r.list,
                          took |-> st.took],
                         Append(bc, m))
         ELSE [pc |-> "Streaming", raised |-> "none", list |-> r.list,
               bcasts |-> bc, loop |-> NoLoop]

Init ==
    /\ supervisors = <<>>
    /\ supState = [s \in Sups |-> "Init"]
    /\ supRaised = [s \in Sups |-> "none"]
    /\ connOpen = [s \in Sups |-> FALSE]
    /\ slow = None
    /\ supInbound = [s \in Sups |-> 0]
    /\ inbox = [s \in Sups |-> <<>>]
    /\ pc = [a \in Agents |-> "Init"]
    /\ raised = [a \in Agents |-> "none"]
    /\ loc = [a \in Agents |-> NoLocals]
    /\ loop = [a \in Agents |-> NoLoop]
    /\ bcasts = [a \in Agents |-> <<>>]
    /\ ncalls = [a \in Agents |-> 0]
    /\ now = 0

\* the clock advances
Tick ==
    /\ now < MaxTime
    /\ now' = now + 1
    /\ UNCHANGED <<supervisors, supVars, inbox, agentVars>>

\* ------------------------------------------------------------- ws_agent
\* app.py:36-38  accept, then agent_id from the clock
AgentConnect(a) ==
    /\ pc[a] = "Init"
    /\ pc' = [pc EXCEPT ![a] = "Streaming"]
    /\ loc' = [loc EXCEPT ![a].agent_id = now % AgentIdMod]
    /\ UNCHANGED <<supervisors, supVars, inbox, raised, loop, bcasts, ncalls, now>>

\* app.py:41-44  receive_text returns a blank message: continue
AgentReceiveBlank(a, D) ==
    /\ pc[a] = "Streaming"
    /\ \E d \in D :
          /\ Strip(d) = <<>>
          /\ loc' = [loc EXCEPT ![a].data = d, ![a].text = Strip(d)]
    /\ bcasts' = [bcasts EXCEPT ![a] = <<>>]
    /\ UNCHANGED <<supervisors, supVars, inbox, pc, raised, loop, ncalls, now>>

\* app.py:41-89  receive_text returns a message with text: classify, build the
\* first dict and run to the first awaited send (or, with no supervisor in the
\* list, through every pass and back to receive_text).  The message is one of
\* D, the classifier does one of R, and cap bounds the messages of the run.
AgentReceive(a, D, R, cap) ==
    /\ pc[a] = "Streaming"
    /\ Sum(ncalls, NumAgents) < cap
    /\ \E d \in D, res \in R :
          LET t == Strip(d)
              k == Classify(res)
              pl == PassPlan(k.label, k.score)
              c == [agent_id |-> loc[a].agent_id, data |-> d, text |-> t,
                    label |-> k.label, score |-> k.score, res |-> res]
              m == BuildMsg(pl[1], c.agent_id, t, k.label, k.score)
              r == Iterate(c, supervisors,
                           [plan |-> pl, msg |-> m, sup |-> None, idx |-> 0,
                            dead |-> <<>>, snap |-> supervisors,
                            took |-> {}],
                           <<m>>)
          IN /\ t # <<>>
             /\ loc' = [loc EXCEPT ![a] = c]
             /\ pc' = [pc EXCEPT ![a] = r.pc]
             /\ loop' = [loop EXCEPT ![a] = r.loop]
             /\ bcasts' = [bcasts EXCEPT ![a] = r.bcasts]
             /\ supervisors' = r.list
    /\ ncalls' = [ncalls EXCEPT ![a] = @ + 1]
    /\ UNCHANGED <<supVars, inbox, raised, now>>

\* a frame put in front of the frames the connection already carries
Deliver_First(box, entry) == <<entry>> \o box

\* app.py:67, 85  send_text puts the frame on the connection after the frames
\* sent to it before
Deliver(box, entry) == Append(box, entry)

\* app.py:65-71 and 83-93  the awaited send_text to the member sup completes:
\* it delivers, or raises and the member is appended to dead; the loop goes on.
\* A ValueError of list.remove is not caught (app.py:91): it ends the task.
AgentSend(a) ==
    /\ pc[a] = "Broadcast"
    /\ slow # loop[a].sup \/ ~connOpen[loop[a].sup]
    /\ LET s == loop[a].sup
           ok == connOpen[s]
           st == IF ok THEN loop[a]
                 ELSE [loop[a] EXCEPT !.dead = Append(@, s)]
           r == Iterate(loc[a], supervisors, st, bcasts[a])
       IN /\ inbox' = IF ok
                      THEN [inbox EXCEPT ![s] =
                               Deliver(@, [json |-> Dumps(loop[a].msg),
                                           src |-> a, n |-> ncalls[a]])]
                      ELSE inbox
          /\ pc' = [pc EXCEPT ![a] = r.pc]
          /\ raised' = [raised EXCEPT ![a] = r.raised]
          /\ loop' = [loop EXCEPT ![a] = r.loop]
          /\ bcasts' = [bcasts EXCEPT ![a] = r.bcasts]
          /\ loc' = IF r.pc = "Closed" THEN [loc EXCEPT ![a] = NoLocals] ELSE loc
          /\ supervisors' = r.list
    /\ UNCHANGED <<supVars, ncalls, now>>

\* app.py:91-93  receive_text raises WebSocketDisconnect: return
AgentDisconnect(a) ==
    /\ pc[a] = "Streaming"
    /\ pc' = [pc EXCEPT ![a] = "Closed"]
    /\ loc' = [loc EXCEPT ![a] = NoLocals]
    /\ UNCHANGED <<supervisors, supVars, inbox, raised, loop, bcasts, ncalls, now>>

\* app.py:41, 91  receive_text raises anything else: not caught, leaves ws_agent
AgentReceiveError(a) ==
    /\ pc[a] = "Streaming"
    /\ pc' = [pc EXCEPT ![a] = "Closed"]
    /\ raised' = [raised EXCEPT ![a] = "TransportError"]
    /\ loc' = [loc EXCEPT ![a] = NoLocals]
    /\ UNCHANGED <<supervisors, supVars, inbox, loop, bcasts, ncalls, now>>

\* ------------------------------------------------------------- ws_supervisor
\* the connection appended a second time
SupConnect_AppendTwice(s) ==
    /\ supState[s] = "Init"
    /\ supState' = [supState EXCEPT ![s] = "Registered"]
    /\ connOpen' = [connOpen EXCEPT ![s] = TRUE]
    /\ supervisors' = Append(Append(supervisors, s), s)
    /\ UNCHANGED <<supRaised, slow, supInbound, inbox, agentVars, now>>

\* app.py:102-103  accept, then append to the list
SupConnect(s) ==
    /\ supState[s] = "Init"
    /\ supState' = [supState EXCEPT ![s] = "Registered"]
    /\ connOpen' = [connOpen EXCEPT ![s] = TRUE]
    /\ supervisors' = Append(supervisors, s)
    /\ UNCHANGED <<supRaised, slow, supInbound, inbox, agentVars, now>>

\* a message taken as the end of the session
SupReceive_Deregisters(s) ==
    /\ supState[s] = "Registered"
    /\ connOpen[s]
    /\ Sum(supInbound, NumSups) < MaxInbound
    /\ supInbound' = [supInbound EXCEPT ![s] = @ + 1]
    /\ supervisors' = IF s \in Range(supervisors)
                      THEN RemoveFirst(supervisors, s) ELSE supervisors
    /\ supState' = [supState EXCEPT ![s] = "Closed"]
    /\ UNCHANGED <<supRaised, connOpen, slow, inbox, agentVars, now>>

\* app.py:107  receive_text returns a message, which is dropped
SupReceive(s) ==
    /\ supState[s] = "Registered"
    /\ connOpen[s]
    /\ Sum(supInbound, NumSups) < MaxInbound
    /\ supInbound' = [supInbound EXCEPT ![s] = @ + 1]
    /\ UNCHANGED <<supervisors, supState, supRaised, connOpen, slow, inbox,
                   agentVars, now>>

\* the supervisor's peer goes away: sends to the connection fail from now on
SupPeerClose(s) ==
    /\ connOpen[s]
    /\ supState[s] = "Registered"
    /\ slow # s
    /\ connOpen' = [connOpen EXCEPT ![s] = FALSE]
    /\ UNCHANGED <<supervisors, supState, supRaised, slow, supInbound, inbox,
                   agentVars, now>>

\* the supervisor's peer stops reading: sends to the connection never complete
SupStall(s) ==
    /\ slow = None
    /\ connOpen[s]
    /\ supState[s] = "Registered"
    /\ slow' = s
    /\ UNCHANGED <<supervisors, supState, supRaised, connOpen, supInbound, inbox,
                   agentVars, now>>

\* the removal made without the membership test
SupDisconnect_Unguarded(s) ==
    /\ supState[s] = "Registered"
    /\ ~connOpen[s]
    /\ supervisors' = IF s \in Range(supervisors)
                      THEN RemoveFirst(supervisors, s) ELSE supervisors
    /\ supState' = [supState EXCEPT ![s] = "Closed"]
    /\ supRaised' = [supRaised EXCEPT ![s] =
                        IF s \in Range(supervisors) THEN "none" ELSE "ValueError"]
    /\ UNCHANGED <<connOpen, slow, supInbound, inbox, agentVars, now>>

\* app.py:108-111  receive_text raises WebSocketDisconnect: remove if present
SupDisconnect(s) ==
    /\ supState[s] = "Registered"
    /\ ~connOpen[s]
    /\ supervisors' = IF s \in Range(supervisors)
                      THEN RemoveFirst(supervisors, s) ELSE supervisors
    /\ supState' = [supState EXCEPT ![s] = "Closed"]
    /\ UNCHANGED <<supRaised, connOpen, slow, supInbound, inbox, agentVars, now>>

\* app.py:107-108  receive_text raises anything else: not caught, no removal;
\* the server closes the connection of a handler that has ended
SupReceiveError(s) ==
    /\ supState[s] = "Registered"
    /\ connOpen[s]
    /\ slow # s
    /\ supState' = [supState EXCEPT ![s] = "Closed"]
    /\ supRaised' = [supRaised EXCEPT ![s] = "TransportError"]
    /\ connOpen' = [connOpen EXCEPT ![s] = FALSE]
    /\ UNCHANGED <<supervisors, slow, supInbound, inbox, agentVars, now>>

\* ------------------------------------------------------------- specifications
\* the hub under every interleaving of its tasks
Next ==
    \/ \E a \in Agents : AgentConnect(a)
    \/ \E a \in Agents : AgentReceiveBlank(a, CoreInputs)
    \/ \E a \in Agents : AgentReceive(a, CoreInputs, CoreOutcomes, MaxMsgs)
    \/ \E a \in Agents : AgentSend(a)
    \/ \E a \in Agents : AgentDisconnect(a)
    \/ \E a \in Agents : AgentReceiveError(a)
    \/ \E s \in Sups : SupConnect(s)
    \/ \E s \in Sups : SupPeerClose(s)
    \/ \E s \in Sups : SupDisconnect(s)
    \/ \E s \in Sups : SupReceiveError(s)

Spec == Init /\ [][Next]_vars

\* one message of one agent with every input and every classifier outcome, the clock
\* running and the supervisors sending messages of their own
One == {1}

NextSession ==
    \/ Tick
    \/ \E a \in One : AgentConnect(a)
    \/ \E a \in One : AgentReceiveBlank(a, Inputs)
    \/ \E a \in One : AgentReceive(a, Inputs, ClassifierOutcomes, 1)
    \/ \E a \in One : AgentSend(a)
    \/ \E a \in One : AgentDisconnect(a)
    \/ \E a \in One : AgentReceiveError(a)
    \/ \E s \in Sups : SupConnect(s)
    \/ \E s \in Sups : SupReceive(s)
    \/ \E s \in Sups : SupPeerClose(s)
    \/ \E s \in Sups : SupDisconnect(s)
    \/ \E s \in Sups : SupReceiveError(s)

SessionSpec == Init /\ [][NextSession]_vars

\* one agent session and a supervisor that may stop reading.  The event loop
\* resumes a task whose awaited call has completed, so a send that can complete
\* does, and a handler whose connection is gone gets its disconnect.
NextSlow ==
    \/ \E a \in One : AgentConnect(a)
    \/ \E a \in One : AgentReceiveBlank(a, CoreInputs)
    \/ \E a \in One : AgentReceive(a, CoreInputs, CoreOutcomes, MaxMsgs)
    \/ \E a \in One : AgentSend(a)
    \/ \E a \in One : AgentDisconnect(a)
    \/ \E a \in One : AgentReceiveError(a)
    \/ \E s \in Sups : SupConnect(s)
    \/ \E s \in Sups : SupStall(s)
    \/ \E s \in Sups : SupPeerClose(s)
    \/ \E s \in Sups : SupDisconnect(s)
    \/ \E s \in Sups : SupReceiveError(s)

FairSpec ==
    /\ Init
    /\ [][NextSlow]_vars
    /\ \A a \in One : WF_vars(AgentSend(a))
    /\ \A s \in Sups : WF_vars(SupDisconnect(s))

\* ------------------------------------------------------------- properties
\* the value of the member k of a dumped dict
Field(j, k) == LET i == CHOOSE x \in 1..Len(j) : j[x][1] = k IN j[i][2]

\* the places in the inbox of s that hold the event of the given type of the
\* n-th classified message of agent a
Got(s, a, n, type) ==
    { i \in 1..Len(inbox[s]) :
         /\ inbox[s][i].src = a
         /\ inbox[s][i].n = n
         /\ Field(inbox[s][i].json, "type") = type }

Pos(list, x) == CHOOSE i \in 1..Len(list) : list[i] = x

AllSpace(d) == \A i \in 1..Len(d) : d[i] = " "

\* agent a is in the pass that broadcasts events of the given type
InPass(a, type) == pc[a] = "Broadcast" /\ loop[a].plan[1] = type

\* the members whose send has failed in the running pass of a once the awaited
\* send has completed
FailedNow(a) ==
    Range(loop[a].dead) \cup
        (IF connOpen[loop[a].sup] THEN {} ELSE {loop[a].sup})

\* this step completes the last send of the running pass of a
PassEnds(a) ==
    /\ pc[a] = "Broadcast"
    /\ \/ pc'[a] # "Broadcast"
       \/ loop'[a].plan # loop[a].plan

\* the members that were in the list when the running pass of a began and have
\* been in it since (a removed connection is never appended again)
Stayed(a) == Range(loop[a].snap) \cap Range(supervisors)

\* C1: when the transcript pass of a message ends, every supervisor that was in
\* the list when the pass began, is still in it and whose send did not fail has
\* been sent the transcript event, with the label and score of the classifier.
C1_TranscriptToEveryMember ==
    [][\A a \in Agents :
          (PassEnds(a) /\ InPass(a, "transcript")) =>
             \A s \in Stayed(a) \ FailedNow(a) :
                \E i \in 1..Len(inbox'[s]) :
                   /\ inbox'[s][i].src = a
                   /\ inbox'[s][i].n = ncalls[a]
                   /\ Field(inbox'[s][i].json, "type") = "transcript"
                   /\ Field(inbox'[s][i].json, "emotion") = loc[a].label
                   /\ Field(inbox'[s][i].json, "score") = loc[a].score]_vars

\* the agent is handling, or has last handled, a message with text
HasMessage(a) ==
    pc[a] \in {"Streaming", "Broadcast"} /\ ncalls[a] > 0 /\ loc[a].text # <<>>

\* C2: an alert event is built and broadcast for a message if and only if its
\* label is anger, fear or sadness and its score is above 0.6; every alert event
\* a supervisor holds has such a label and score.
C2_AlertIffAboveThreshold ==
    /\ \A a \in Agents :
          HasMessage(a) =>
             ((\E i \in 1..Len(bcasts[a]) : bcasts[a][i].type = "alert")
                <=> (loc[a].label \in {"anger", "fear", "sadness"}
                       /\ loc[a].score > 60))
    /\ \A s \in Sups : \A i \in 1..Len(inbox[s]) :
          Field(inbox[s][i].json, "type") = "alert" =>
             /\ Field(inbox[s][i].json, "emotion") \in {"anger", "fear", "sadness"}
             /\ Field(inbox[s][i].json, "score") > 60

\* an alert label at exactly 0.6 went out as a transcript with no alert
C2_Witness ==
    \E a \in Agents, s \in Sups :
       /\ HasMessage(a)
       /\ loc[a].label = "anger" /\ loc[a].score = 60
       /\ Got(s, a, ncalls[a], "transcript") # {}
       /\ Got(s, a, ncalls[a], "alert") = {}

\* C3: a blank message (empty or spaces only) makes no classifier call, sends
\* nothing, leaves the list as it is and leaves the agent at receive_text.
C3_BlankInputDiscarded ==
    [][\A a \in Agents :
          (/\ pc[a] = "Streaming"
           /\ loc'[a].data # loc[a].data
           /\ AllSpace(loc'[a].data)) =>
             /\ ncalls' = ncalls
             /\ inbox' = inbox
             /\ supervisors' = supervisors
             /\ bcasts'[a] = <<>>
             /\ pc'[a] = "Streaming"]_vars

\* a blank message was read while a supervisor was registered
C3_Witness ==
    \E a \in Agents, s \in Sups :
       /\ pc[a] = "Streaming"
       /\ loc[a].data = <<" ">>
       /\ s \in Range(supervisors) /\ connOpen[s]
       /\ inbox[s] = <<>>

\* C4: the alert pass of a message is over before its transcript pass begins:
\* while the alert pass runs no transcript of the message has been sent, and a
\* supervisor that holds both events of a message holds the alert first.
C4_AlertBeforeTranscript ==
    /\ \A a \in Agents :
          InPass(a, "alert") =>
             \A s \in Sups : Got(s, a, ncalls[a], "transcript") = {}
    /\ \A a \in Agents :
          InPass(a, "transcript") =>
             \A i \in 1..Len(bcasts[a]) :
                bcasts[a][i].type = "alert" => i < Len(bcasts[a])
    /\ \A s \in Sups : \A i, j \in 1..Len(inbox[s]) :
          (/\ inbox[s][i].src = inbox[s][j].src
           /\ inbox[s][i].n = inbox[s][j].n
           /\ Field(inbox[s][i].json, "type") = "alert"
           /\ Field(inbox[s][j].json, "type") = "transcript") => i < j

\* a supervisor holds the alert and the transcript of one message
C4_Witness ==
    \E a \in Agents, s \in Sups :
       Got(s, a, 1, "alert") # {} /\ Got(s, a, 1, "transcript") # {}

\* the members the running pass of a has sent to, or failed to send to, once
\* the awaited send has completed
AttemptedNow(a) ==
    FailedNow(a) \cup
       { s \in Sups : \E i \in 1..Len(inbox'[s]) :
            /\ inbox'[s][i].src = a
            /\ inbox'[s][i].n = ncalls[a]
            /\ Field(inbox'[s][i].json, "type") = loop[a].plan[1] }

\* C5: a send failure does not stop the pass: when a pass ends, every member
\* that stood after a failed one in the list and is still in it has been sent to.
C5_FailureDoesNotStopPass ==
    [][\A a \in Agents :
          PassEnds(a) =>
             \A f \in FailedNow(a) \cap Range(loop[a].snap) :
                \A t \in Stayed(a) :
                   Pos(loop[a].snap, t) > Pos(loop[a].snap, f)
                      => t \in AttemptedNow(a)]_vars

\* C6: a broadcast never raises to the agent session: no agent handler is left
\* by the ValueError of a list.remove.
C6_BroadcastNeverRaises ==
    \A a \in Agents : pc[a] = "Closed" => raised[a] \in {"none", "TransportError"}

\* the send a awaits goes to the supervisor that has stopped reading, and t is
\* a member further on in the list that is registered and reachable
BlockedBefore(a, t) ==
    /\ pc[a] = "Broadcast"
    /\ loop[a].sup = slow
    /\ t # slow
    /\ \E i \in (loop[a].idx + 1)..Len(supervisors) : supervisors[i] = t
    /\ supState[t] = "Registered" /\ connOpen[t]

\* C7: a supervisor whose send never completes blocks nobody: the members
\* after it that stay registered and reachable are still sent the event, and
\* the agent gets back to receive_text.
C7_SlowConsumerBlocksNobody ==
    /\ \A a \in One : \A t \in Sups : \A k \in 0..(2 * MaxMsgs) :
          (BlockedBefore(a, t) /\ Len(inbox[t]) = k)
             ~> (Len(inbox[t]) > k \/ ~connOpen[t] \/ supState[t] # "Registered")
    /\ \A a \in One : (pc[a] = "Broadcast") ~> (pc[a] # "Broadcast")

\* the classifier raised on the message a is handling, or has last handled
RaisedOn(a) == HasMessage(a) /\ loc[a].res.kind = "raise"

\* C8: when the classifier raises, label and score are "unknown" and 0.0, the
\* one dict built is a transcript with them, no supervisor is sent an alert or
\* a second transcript, and the handler is not left.
C8_ClassifierRaiseGivesUnknown ==
    [][\A a \in Agents :
          /\ (ncalls'[a] # ncalls[a] /\ loc'[a].res.kind = "raise") =>
                pc'[a] \in {"Streaming", "Broadcast"} /\ raised'[a] = "none"
          /\ RaisedOn(a)' =>
                /\ loc'[a].label = "unknown" /\ loc'[a].score = 0
                /\ Len(bcasts'[a]) = 1
                /\ bcasts'[a][1].type = "transcript"
                /\ bcasts'[a][1].emotion = "unknown"
                /\ bcasts'[a][1].score = 0
                /\ \A s \in Sups :
                      /\ Got(s, a, ncalls[a], "alert")' = {}
                      /\ Cardinality(Got(s, a, ncalls[a], "transcript")') <= 1
                      /\ \A i \in Got(s, a, ncalls[a], "transcript")' :
                            /\ Field(inbox'[s][i].json, "emotion") = "unknown"
                            /\ Field(inbox'[s][i].json, "score") = 0]_vars

\* a supervisor holds the transcript of a message the classifier raised on
C8_Witness ==
    \E a \in Agents, s \in Sups :
       RaisedOn(a) /\ Got(s, a, ncalls[a], "transcript") # {}

\* C9: a pass during which the list did not change and no send failed has
\* sent its event exactly once to every member, the same text to each.
C9_AllMembersSamePayload ==
    [][\A a \in Agents :
          (PassEnds(a) /\ supervisors = loop[a].snap /\ FailedNow(a) = {}) =>
             /\ \A s \in Range(loop[a].snap) :
                   Cardinality({ i \in 1..Len(inbox'[s]) :
                                    /\ inbox'[s][i].src = a
                                    /\ inbox'[s][i].n = ncalls[a]
                                    /\ Field(inbox'[s][i].json, "type")
                                          = loop[a].plan[1] }) = 1
             /\ \A s, t \in Range(loop[a].snap) :
                   \A i \in 1..Len(inbox'[s]) : \A j \in 1..Len(inbox'[t]) :
                      (/\ inbox'[s][i].src = a /\ inbox'[t][j].src = a
                       /\ inbox'[s][i].n = ncalls[a] /\ inbox'[t][j].n = ncalls[a]
                       /\ Field(inbox'[s][i].json, "type") = loop[a].plan[1]
                       /\ Field(inbox'[t][j].json, "type") = loop[a].plan[1])
                         => inbox'[s][i].json = inbox'[t][j].json]_vars

\* every supervisor is registered and holds the transcript of the message, and
\* the clock moved on after the dict was built
C9_Witness ==
    \E a \in Agents :
       /\ pc[a] = "Streaming"
       /\ Len(supervisors) = NumSups
       /\ \A s \in Sups :
             /\ Got(s, a, 1, "transcript") # {}
             /\ \A i \in Got(s, a, 1, "transcript") :
                   Field(inbox[s][i].json, "ts") < now

\* C10: a message from a registered supervisor is read and dropped: the list,
\* every inbox and every agent task stay as they are and the supervisor stays
\* registered.
C10_InboundDiscarded ==
    [][\A s \in Sups :
          supInbound'[s] # supInbound[s] =>
             /\ supState[s] = "Registered" /\ supState'[s] = "Registered"
             /\ supervisors' = supervisors
             /\ inbox' = inbox
             /\ connOpen' = connOpen
             /\ agentVars' = agentVars]_vars

\* a registered supervisor that holds an event has had a message of its own read
C10_Witness ==
    \E s \in Sups :
       /\ supInbound[s] > 0
       /\ supState[s] = "Registered"
       /\ s \in Range(supervisors)
       /\ inbox[s] # <<>>

\* C11: the list is not modified while a pass iterates it: from the first
\* awaited send of a pass to the completion of its last one the list stays as
\* it is, and the dead of the pass are removed only then.
C11_ListFixedDuringPass ==
    [][\A a \in Agents :
          (pc[a] = "Broadcast" /\ ~PassEnds(a)) => supervisors' = supervisors]_vars

\* C12: the list holds only connections whose handler is registered: a
\* connection whose handler has ended, for whatever reason, is not in it.
C12_ClosedHandlerNotInList ==
    \A s \in Range(supervisors) : supState[s] = "Registered"

\* C13: a member whose send failed in a pass is out of the list when the pass
\* has finished, so that no later pass takes it from the list again.
C13_FailedMemberRemoved ==
    [][\A a \in Agents :
          /\ PassEnds(a) => FailedNow(a) \cap Range(supervisors') = {}
          /\ (pc'[a] = "Broadcast" /\ loop'[a] # loop[a]) =>
                loop'[a].sup \in Range(supervisors')]_vars

\* C14: removal is idempotent: when the disconnect branch of a supervisor's
\* handler runs and the connection is no longer in the list, the list stays as
\* it is and the handler returns without an exception.
C14_RemovalIdempotent ==
    [][\A s \in Sups :
          (/\ supState[s] = "Registered" /\ supState'[s] = "Closed"
           /\ ~connOpen[s]
           /\ s \notin Range(supervisors)) =>
             /\ supervisors' = supervisors
             /\ supRaised'[s] = "none"]_vars

\* a broadcast has removed a connection whose handler is yet to see the
\* disconnect, and the agent that removed it is still running
C14_Witness ==
    \E s \in Sups, a \in Agents :
       /\ supState[s] = "Registered"
       /\ ~connOpen[s]
       /\ s \notin Range(supervisors)
       /\ pc[a] = "Streaming" /\ ncalls[a] > 0

\* C15: the list holds no connection twice.
C15_NoDuplicateMember ==
    \A i, j \in 1..Len(supervisors) : supervisors[i] = supervisors[j] => i = j

\* the list has been through a removal and holds every connection still open
C15_Witness ==
    /\ Len(supervisors) >= 1
    /\ \E s \in Sups : supState[s] = "Closed" /\ s \notin Range(supervisors)
    /\ \E a \in Agents : ncalls[a] > 0

\* C16: a receive failure of any kind ends the agent session silently: no
\* exception raised by receive_text leaves the agent handler.
C16_AgentEndsSilently ==
    \A a \in Agents : pc[a] = "Closed" => raised[a] # "TransportError"

\* C17: a classifier result that is empty or not a list gives the label
\* "unknown" and the score 0.0, as a raise does.
C17_EveryFailureGivesUnknown ==
    \A a \in Agents :
       (HasMessage(a) /\ (loc[a].res.kind # "list" \/ loc[a].res.items = <<>>)) =>
          /\ loc[a].label = "unknown" /\ loc[a].score = 0
          /\ \A i \in 1..Len(bcasts[a]) :
                bcasts[a][i].emotion = "unknown" /\ bcasts[a][i].score = 0

\* C18: no supervisor is sent the same event twice.
C18_NoEventTwice ==
    \A s \in Sups : \A i, j \in 1..Len(inbox[s]) :
       (/\ inbox[s][i].src = inbox[s][j].src
        /\ inbox[s][i].n = inbox[s][j].n
        /\ Field(inbox[s][i].json, "type") = Field(inbox[s][j].json, "type"))
          => i = j

\* the list has changed since the running pass began, and a member has
\* already been sent the event of the pass
C18_Witness ==
    \E a \in Agents, s \in Sups :
       /\ pc[a] = "Broadcast"
       /\ supervisors # loop[a].snap
       /\ Got(s, a, ncalls[a], loop[a].plan[1]) # {}

\* C19 as stated: a supervisor that holds the transcript event of a message
\* whose label and score qualify for an alert holds the alert event of that
\* message too.
C19_TranscriptImpliesAlert ==
    \A s \in Sups : \A i \in 1..Len(inbox[s]) :
       (/\ Field(inbox[s][i].json, "type") = "transcript"
        /\ ShouldAlert(Field(inbox[s][i].json, "emotion"),
                       Field(inbox[s][i].json, "score"))) =>
          Got(s, inbox[s][i].src, inbox[s][i].n, "alert") # {}

\* C19 amended: a supervisor that the alert loop of an alert-qualifying
\* message took from the list and that holds the transcript event of the
\* message holds its alert event too.
C19_TakenByAlertLoop ==
    \A a \in Agents : \A s \in Sups :
       (/\ pc[a] = "Broadcast"
        /\ s \in loop[a].took
        /\ Got(s, a, ncalls[a], "transcript") # {}) =>
          /\ ShouldAlert(loc[a].label, loc[a].score)
          /\ Got(s, a, ncalls[a], "alert") # {}

\* a supervisor the alert loop took holds both events of the message, and the
\* transcript pass is now sending to a member the alert loop did not take
C19_Witness ==
    \E a \in Agents, s \in Sups :
       /\ InPass(a, "transcript")
       /\ s \in loop[a].took
       /\ Got(s, a, ncalls[a], "alert") # {}
       /\ Got(s, a, ncalls[a], "transcript") # {}
       /\ loop[a].sup \notin loop[a].took

\* C20: at every supervisor the events of one agent come in the order of its
\* messages: no event of a later message stands before an event of an earlier
\* message of the same agent.
C20_AgentOrderPreserved ==
    \A s \in Sups : \A i, j \in 1..Len(inbox[s]) :
       (inbox[s][i].src = inbox[s][j].src /\ i < j) =>
          inbox[s][i].n <= inbox[s][j].n

\* a supervisor holds events of the first and of the second message of one
\* agent
C20_Witness ==
    \E a \in Agents, s \in Sups :
       /\ \E i \in 1..Len(inbox[s]) : inbox[s][i].src = a /\ inbox[s][i].n = 1
       /\ \E i \in 1..Len(inbox[s]) : inbox[s][i].src = a /\ inbox[s][i].n = 2

====
